---------------------------- MODULE Spec2Model ----------------------------
(***************************************************************************)
(* Desktop character: the interval arithmetic, the window registry, the    *)
(* PhysicsObject integrator (src/PhysicsObject.py) and the CharacterWindow *)
(* drag/tick controller (src/main.py).                                     *)
(*                                                                         *)
(* Numbers.  The program computes in floating point.  The model computes   *)
(* in fixed point, truncating toward zero where a product or quotient is   *)
(* not representable:                                                      *)
(*   time      1 unit = 1 ms                                               *)
(*   velocity  1 unit = 1/VScale px/s                                      *)
(*   position  1 unit = 1/PScale px, PScale = 1000 * VScale, so that       *)
(*             velocity * dt is exact                                      *)
(* Interval end points and window rectangles are whole pixels.             *)
(***************************************************************************)
EXTENDS Integers, Sequences, FiniteSets, TLC

VARIABLES
    \* subtractIntervals, run on its own
    base,           \* <<base_start, base_end>>
    subtracts,      \* the list of cuts, each <<sx, ex>>
    intervals,      \* the list returned
    subPc,          \* "input" before the call, "done" after it
    \* PhysicsObject and DesktopInteractionManager
    position,       \* PhysicsObject.position, [x, y] in position units
    velocity,       \* PhysicsObject.velocity, [x, y] in velocity units
    windows,        \* DesktopInteractionManager.windows: hwnd -> WindowInfo
    desktop,        \* the top-level windows of the desktop, topmost first
    nTicks,         \* ticks so far (applyPhysics, or updatePhysics of main.py)
    tick,           \* what the last call of applyPhysics did (history)
    groupsResult,   \* the last getCollisionBordersGroups: what it returned and
                    \* the registry it read (history)
    \* CharacterWindow
    is_dragging,    \* self.is_dragging
    drag_position,  \* self.drag_position, <<x, y>> px
    last_time,      \* self.last_time, ms
    drag_history,   \* self.drag_history, a list of [pos, time]
    windowPos,      \* where the sprite window is, <<x, y>> px
    cwPosition,     \* self.position, position units
    cwVelocity,     \* self.velocity, velocity units
    last_physics_time,
    buttons,        \* the mouse buttons held down
    now,            \* the clock, ms
    samples,        \* every entry appended to drag_history since the last
                    \* press, never trimmed (history)
    cwEvent         \* the handler that ran last, and whether it returned at
                    \* its first test (history)

subVars == <<base, subtracts, intervals, subPc>>

cwVars == <<is_dragging, drag_position, last_time, drag_history, windowPos,
            cwPosition, cwVelocity, last_physics_time, buttons, now, samples,
            cwEvent>>

physVars == <<position, velocity, windows, desktop, nTicks, tick, groupsResult>>

vars == <<subVars, physVars, cwVars>>

-----------------------------------------------------------------------------
(* Generic helpers *)

Range(s) == {s[i] : i \in DOMAIN s}

SeqsUpTo(S, n) == UNION {[1..k -> S] : k \in 0..n}

Abs(a) == IF a < 0 THEN -a ELSE a

Min(a, b) == IF a < b THEN a ELSE b

\* the quotient rounded toward zero, b > 0
TruncDiv(a, b) == IF a >= 0 THEN a \div b ELSE -((-a) \div b)

RECURSIVE ISqrtIn(_, _, _)
ISqrtIn(n, lo, hi) ==
    IF lo = hi THEN lo
    ELSE LET mid == (lo + hi + 1) \div 2
         IN  IF mid * mid <= n THEN ISqrtIn(n, mid, hi) ELSE ISqrtIn(n, lo, mid - 1)

\* the integer square root, for 0 <= n < 2^31
ISqrt(n) == ISqrtIn(n, 0, 46340)

MaxTicks == 3       \* ticks in a run

\* resolution of the fixed point: velocity units per px/s
VScale == 4

\* position units per px
PScale == 1000 * VScale

Px(n) == n * PScale

\* QVector2D(a, b)
Vec(a, b) == [x |-> a, y |-> b]

-----------------------------------------------------------------------------
(* subtractIntervals, src/PhysicsObject.py:32-48 *)

\* Mutant: the left remainder is appended without the test sx > ix.
CutOneNoLeftGuard(iv, sx, ex) ==
    IF ex <= iv[1] \/ sx >= iv[2]
    THEN <<iv>>
    ELSE <<<<iv[1], sx>>>>
         \o (IF ex < iv[2] THEN <<<<ex, iv[2]>>>> ELSE <<>>)

\* Lines 37-46: what one working interval (ix, iy) contributes to
\* new_intervals for the cut (sx, ex).
CutOne(iv, sx, ex) ==
    IF ex <= iv[1] \/ sx >= iv[2]
    THEN <<iv>>
    ELSE (IF sx > iv[1] THEN <<<<iv[1], sx>>>> ELSE <<>>)
         \o (IF ex < iv[2] THEN <<<<ex, iv[2]>>>> ELSE <<>>)

RECURSIVE CutAllFirstOnly(_, _, _)
\* Mutant: only the first working interval is cut, the others pass through.
CutAllFirstOnly(ivs, sx, ex) ==
    IF ivs = <<>> THEN <<>>
    ELSE CutOne(Head(ivs), sx, ex) \o Tail(ivs)

RECURSIVE CutAll(_, _, _)
\* Lines 35-46: the inner loop, new_intervals for one cut.
CutAll(ivs, sx, ex) ==
    IF ivs = <<>> THEN <<>>
    ELSE CutOne(Head(ivs), sx, ex) \o CutAll(Tail(ivs), sx, ex)

RECURSIVE SubtractFrom(_, _)
\* Lines 34-47: the outer loop, the working list after every cut in order.
SubtractFrom(ivs, cuts) ==
    IF cuts = <<>> THEN ivs
    ELSE SubtractFrom(CutAll(ivs, Head(cuts)[1], Head(cuts)[2]), Tail(cuts))

subtractIntervals(base_start, base_end, cuts) ==
    SubtractFrom(<<<<base_start, base_end>>>>, cuts)

-----------------------------------------------------------------------------
(* DesktopInteractionManager, src/DesktopInteractionManager.py *)

\* A desktop window is [hwnd, visible, rect], rect = <<x, y, x2, y2>> as
\* GetWindowRect returns it.  visible stands for the filters of lines 34-54
\* and 64-73 together (visible, not iconic, no parent, no owner, no tool
\* window, a title, no banned class): a window failing any of them is one
\* with visible = FALSE.

\* Lines 34-73: the filters of callback.
PassesFilters(w) ==
    /\ w.visible
    /\ ~(w.rect[3] - w.rect[1] = 0 \/ w.rect[4] - w.rect[2] = 0)

\* Lines 76-83: the WindowInfo of a window that passed, z = order_counter.
WindowInfo(w, order_counter) ==
    [position |-> <<w.rect[1], w.rect[2]>>,
     size     |-> <<w.rect[3] - w.rect[1], w.rect[4] - w.rect[2]>>,
     z        |-> order_counter]

\* Line 85: windows[hwnd] = info.
Put(reg, hwnd, info) ==
    [h \in (DOMAIN reg) \cup {hwnd} |-> IF h = hwnd THEN info ELSE reg[h]]

RECURSIVE EnumWindows(_, _, _)
\* Lines 31-89: callback run on every window, topmost first; order_counter
\* counts the windows that passed.  Nothing is ever removed (line 90).
EnumWindows(reg, desk, order_counter) ==
    IF desk = <<>> THEN reg
    ELSE IF PassesFilters(Head(desk))
         THEN EnumWindows(Put(reg, Head(desk).hwnd,
                              WindowInfo(Head(desk), order_counter)),
                          Tail(desk), order_counter + 1)
         ELSE EnumWindows(reg, Tail(desk), order_counter)

updateAllWindowsList(reg, desk) == EnumWindows(reg, desk, 0)

-----------------------------------------------------------------------------
(* PhysicsObject, src/PhysicsObject.py *)

\* PhysicsSettings, lines 11-16
gravity == 5000                 \* px/s^2
friction == 2000                \* px/s^2
air_resistance_den == 1000      \* air_resistance = 0.001 = 1/1000
bounce_damping_den == 2         \* bounce_damping = 0.5 = 1/2
min_velocity == 1               \* px/s

\* the screen rectangle handed to applyPhysics and the size of the body, px
ScreenWidth == 40
ScreenHeight == 40
BodyWidth == 10
BodyHeight == 10

\* getCollisionBordersGroups, lines 116-152.  windows is a dict (hwnd ->
\* WindowInfo, DesktopInteractionManager.py:25 and :85) and line 122 iterates
\* the dict itself, which yields its keys: windowInfo is an int hwnd and the
\* first attribute access, windowInfo.position at line 124, raises
\* AttributeError.  With an empty registry the loop body never runs and the
\* empty list is returned.  reg is the registry after line 118 updated it.
getCollisionBordersGroups(reg) ==
    IF DOMAIN reg = {}
    THEN [raised |-> FALSE, groups |-> <<>>]
    ELSE [raised |-> TRUE, groups |-> <<>>]

\* Lines 168-171: a segment of the group that the body overlaps horizontally.
SegmentHit(x_s, char_left, char_right) ==
    \E i \in DOMAIN x_s : char_right > Px(x_s[i][1]) /\ Px(x_s[i][2]) > char_left

\* Lines 164-171: the groups, in list order, the body's bottom crossed in this
\* tick and that hold a segment under the body.
LandingGroups(groups, p, previous_y) ==
    {g \in DOMAIN groups :
        /\ p.y + Px(BodyHeight) > Px(groups[g].y)
        /\ Px(groups[g].y) >= previous_y + Px(BodyHeight)
        /\ SegmentHit(groups[g].x_s, p.x, p.x + Px(BodyWidth))}

\* c * -bounce_damping
Damp(c) == -TruncDiv(c, bounce_damping_den)

\* windowsCollision, lines 154-176, given what getCollisionBordersGroups
\* returned: the first landing group wins.
windowsCollision(p, v, previous_y, res) ==
    LET hits == LandingGroups(res.groups, p, previous_y)
        first == CHOOSE g \in hits : \A g2 \in hits : g <= g2
    IN  IF res.raised
        THEN [raised |-> TRUE, hit |-> FALSE, position |-> p, velocity |-> v]
        ELSE IF hits = {}
        THEN [raised |-> FALSE, hit |-> FALSE, position |-> p, velocity |-> v]
        ELSE [raised |-> FALSE, hit |-> TRUE,
              position |-> [p EXCEPT !.y = Px(res.groups[first].y) - Px(BodyHeight)],
              velocity |-> [v EXCEPT !.y = Damp(v.y)]]

\* Mutant: the floor branch clamps to the screen height, not to height - h.
ClampFloorNoHeight(p, v) ==
    LET hitLeft == p.x < 0
        hitRight == ~hitLeft /\ p.x + Px(BodyWidth) > Px(ScreenWidth)
        hitTop == p.y < 0
        hitFloor == ~hitTop /\ p.y + Px(BodyHeight) > Px(ScreenHeight)
    IN  [position |->
            [x |-> IF hitLeft THEN 0
                   ELSE IF hitRight THEN Px(ScreenWidth) - Px(BodyWidth) ELSE p.x,
             y |-> IF hitTop THEN 0
                   ELSE IF hitFloor THEN Px(ScreenHeight) ELSE p.y],
         velocity |->
            [x |-> IF hitLeft \/ hitRight THEN Damp(v.x) ELSE v.x,
             y |-> IF hitTop \/ hitFloor THEN Damp(v.y) ELSE v.y],
         apply_friction |-> hitFloor]

\* Mutant: the floor bounce keeps the sign of the vertical velocity.
FloorBounceNoInvert(p, v) ==
    LET hitLeft == p.x < 0
        hitRight == ~hitLeft /\ p.x + Px(BodyWidth) > Px(ScreenWidth)
        hitTop == p.y < 0
        hitFloor == ~hitTop /\ p.y + Px(BodyHeight) > Px(ScreenHeight)
    IN  [position |->
            [x |-> IF hitLeft THEN 0
                   ELSE IF hitRight THEN Px(ScreenWidth) - Px(BodyWidth) ELSE p.x,
             y |-> IF hitTop THEN 0
                   ELSE IF hitFloor THEN Px(ScreenHeight) - Px(BodyHeight) ELSE p.y],
         velocity |->
            [x |-> IF hitLeft \/ hitRight THEN Damp(v.x) ELSE v.x,
             y |-> IF hitTop THEN Damp(v.y)
                   ELSE IF hitFloor THEN -Damp(v.y) ELSE v.y],
         apply_friction |-> hitFloor]

\* screenBordersCollision, lines 90-113.
screenBordersCollision(p, v) ==
    LET hitLeft == p.x < 0
        hitRight == ~hitLeft /\ p.x + Px(BodyWidth) > Px(ScreenWidth)
        hitTop == p.y < 0
        hitFloor == ~hitTop /\ p.y + Px(BodyHeight) > Px(ScreenHeight)
    IN  [position |->
            [x |-> IF hitLeft THEN 0
                   ELSE IF hitRight THEN Px(ScreenWidth) - Px(BodyWidth) ELSE p.x,
             y |-> IF hitTop THEN 0
                   ELSE IF hitFloor THEN Px(ScreenHeight) - Px(BodyHeight) ELSE p.y],
         velocity |->
            [x |-> IF hitLeft \/ hitRight THEN Damp(v.x) ELSE v.x,
             y |-> IF hitTop \/ hitFloor THEN Damp(v.y) ELSE v.y],
         apply_friction |-> hitFloor]

\* Mutant: no gravity is added.
GravityOff(v, dt) == v

\* Line 59: velocity += (0, gravity * dt).
Gravity(v, dt) == [v EXCEPT !.y = v.y + (gravity * VScale * dt) \div 1000]

LengthSquared(v) == v.x * v.x + v.y * v.y

\* Line 64: speed_squared * air_resistance * dt, in velocity units.
AirForce(v, dt) ==
    TruncDiv(TruncDiv(LengthSquared(v), air_resistance_den) * dt, 1000 * VScale)

\* Lines 62-65: velocity -= velocity.normalized() * min(air_force, length).
AirResistance(v, dt) ==
    LET len == ISqrt(LengthSquared(v))
        m == Min(AirForce(v, dt), len)
    IN  IF LengthSquared(v) > 0
        THEN [x |-> v.x - TruncDiv(v.x * m, len), y |-> v.y - TruncDiv(v.y * m, len)]
        ELSE v

\* Line 69: position += velocity * dt.
Integrate(p, v, dt) == [x |-> p.x + v.x * dt, y |-> p.y + v.y * dt]

\* Mutant: friction is always subtracted in full.
FrictionOvershoots(v, dt) ==
    LET f == (friction * VScale * dt) \div 1000
    IN  [v EXCEPT !.x = IF v.x < 0 THEN v.x + f ELSE v.x - f]

\* Lines 77-82: friction on the horizontal velocity.
Friction(v, dt) ==
    LET f == (friction * VScale * dt) \div 1000
    IN  IF Abs(v.x) < f THEN [v EXCEPT !.x = 0]
        ELSE [v EXCEPT !.x = IF v.x < 0 THEN v.x + f ELSE v.x - f]

\* Lines 84-88: stop very small movement.
StopSmallMovement(v) ==
    [x |-> IF Abs(v.x) < min_velocity * VScale THEN 0 ELSE v.x,
     y |-> IF Abs(v.y) < min_velocity * VScale THEN 0 ELSE v.y]

\* Mutant: the windows are queried whenever the floor was not hit, whatever
\* the direction of the vertical velocity.
QueriesAnyDirection(sc) == ~sc.apply_friction

\* Line 73: the windows are tried when the floor was not hit and the body is
\* falling after the screen borders were resolved.
QueriesWindows(sc) == ~sc.apply_friction /\ sc.velocity.y > 0

\* applyPhysics, lines 57-88, from position p, velocity v, registry reg and
\* desktop desk.  When getCollisionBordersGroups raises, the exception leaves
\* applyPhysics at line 74: position and velocity stay as
\* screenBordersCollision left them, friction and the velocity snap are
\* skipped.
applyPhysics(p, v, reg, desk, dt) ==
    LET v2 == AirResistance(Gravity(v, dt), dt)
        p1 == Integrate(p, v2, dt)
        sc == screenBordersCollision(p1, v2)
        queried == QueriesWindows(sc)
        reg2 == IF queried THEN updateAllWindowsList(reg, desk) ELSE reg
        res == getCollisionBordersGroups(reg2)
        wc == windowsCollision(sc.position, sc.velocity, p.y, res)
        raised == queried /\ wc.raised
        applyFriction == IF queried THEN wc.hit ELSE sc.apply_friction
        p3 == IF queried THEN wc.position ELSE sc.position
        v3 == IF queried THEN wc.velocity ELSE sc.velocity
        v4 == IF applyFriction THEN Friction(v3, dt) ELSE v3
    IN  [position |-> p3,
         velocity |-> IF raised THEN v3 ELSE StopSmallMovement(v4),
         windows  |-> reg2,
         res      |-> res,
         info     |-> [op |-> "applyPhysics", dt |-> dt,
                       previous |-> [position |-> p, velocity |-> v],
                       impact |-> v2, integrated |-> p1,
                       floor |-> sc.apply_friction, queried |-> queried,
                       landed |-> queried /\ wc.hit, raised |-> raised,
                       applyFriction |-> applyFriction /\ ~raised,
                       beforeFriction |-> v3, afterFriction |-> v4]]

-----------------------------------------------------------------------------
(* CharacterWindow, src/main.py: the drag handlers and the timer tick.       *)
(* main.py holds its own PhysicsSettings (lines 14-18) with the values of   *)
(* PhysicsObject.py; last_mouse_pos is written and never read, and is left  *)
(* out.  time.time() is the clock now, which only moves forward.            *)

MaxTime == 140      \* the clock stops here, ms
MaxSamples == 3     \* mouse moves recorded in one drag

\* how far the clock moves between two events, ms
Steps == {30, 80}

\* where the cursor can be, px
MousePoints == {<<5, 5>>, <<20, 8>>}

\* where the window is first shown, px
StartPoints == {<<3, 4>>}

Buttons == {"left", "right"}

\* dt = min(dt, 0.05), line 167
max_dt == 50

\* the trailing window of the drag history, 0.1 s, lines 128 and 141
history_window == 100

\* QVector2D(QPoint)
ToVector(pt) == Vec(Px(pt[1]), Px(pt[2]))

\* QVector2D.toPoint: each coordinate rounded to the nearest integer
ToPoint(p) ==
    <<(2 * p.x + PScale) \div (2 * PScale), (2 * p.y + PScale) \div (2 * PScale)>>

\* Lines 128 and 141: the entries younger than 100 ms at current_time.
RECURSIVE Recent(_, _)
Recent(history, current_time) ==
    IF history = <<>> THEN <<>>
    ELSE (IF current_time - Head(history).time < history_window
          THEN <<Head(history)>> ELSE <<>>)
         \o Recent(Tail(history), current_time)

\* Mutant: release takes the last two entries, not the first and the last.
ReleaseVelocityLastTwo(history, v) ==
    LET recent == history[Len(history)]
        older == history[IF Len(history) < 2 THEN 1 ELSE Len(history) - 1]
        time_diff == recent.time - older.time
    IN  IF Len(history) < 2 THEN v
        ELSE IF time_diff <= 0 THEN v
        ELSE Vec(TruncDiv((recent.pos[1] - older.pos[1]) * VScale * 1000, time_diff),
                 TruncDiv((recent.pos[2] - older.pos[2]) * VScale * 1000, time_diff))

\* Lines 143-155: the velocity mouseReleaseEvent leaves, from the trimmed
\* history and the velocity v it found.
ReleaseVelocity(history, v) ==
    LET recent == history[Len(history)]
        older == history[1]
        time_diff == recent.time - older.time
    IN  IF Len(history) < 2 THEN v
        ELSE IF time_diff <= 0 THEN v
        ELSE Vec(TruncDiv((recent.pos[1] - older.pos[1]) * VScale * 1000, time_diff),
                 TruncDiv((recent.pos[2] - older.pos[2]) * VScale * 1000, time_diff))

\* Lines 176-184: air resistance of updatePhysics.
CwAirResistance(v, dt) ==
    LET len == ISqrt(LengthSquared(v))
        af == AirForce(v, dt)
    IN  IF len < af THEN Vec(0, 0)
        ELSE IF len = 0 THEN v
        ELSE [x |-> v.x - TruncDiv(v.x * af, len), y |-> v.y - TruncDiv(v.y * af, len)]

\* Lines 190-210: bounce off the screen edges, friction on the floor.
CwBounce(p, v, dt) ==
    LET hitLeft == p.x <= 0
        hitRight == ~hitLeft /\ p.x + Px(BodyWidth) >= Px(ScreenWidth)
        hitTop == p.y <= 0
        hitFloor == ~hitTop /\ p.y + Px(BodyHeight) >= Px(ScreenHeight)
        vx == IF hitLeft THEN TruncDiv(Abs(v.x), bounce_damping_den)
              ELSE IF hitRight THEN -TruncDiv(Abs(v.x), bounce_damping_den)
              ELSE v.x
        vy == IF hitTop THEN TruncDiv(Abs(v.y), bounce_damping_den)
              ELSE IF hitFloor THEN -TruncDiv(Abs(v.y), bounce_damping_den)
              ELSE v.y
    IN  [position |->
            [x |-> IF hitLeft THEN 0
                   ELSE IF hitRight THEN Px(ScreenWidth) - Px(BodyWidth) ELSE p.x,
             y |-> IF hitTop THEN 0
                   ELSE IF hitFloor THEN Px(ScreenHeight) - Px(BodyHeight) ELSE p.y],
         velocity |-> IF hitFloor THEN Friction(Vec(vx, vy), dt) ELSE Vec(vx, vy)]

\* Lines 163-216: the free-mode branch of updatePhysics for a clamped dt.
CwPhysics(p, v, dt) ==
    LET v2 == CwAirResistance(Gravity(v, dt), dt)
        b == CwBounce(Integrate(p, v2, dt), v2, dt)
    IN  [position |-> b.position, velocity |-> StopSmallMovement(b.velocity)]

-----------------------------------------------------------------------------
(* The PhysicsObject with its environment: ticks, an external controller     *)
(* overwriting position and velocity, and a desktop whose windows change    *)

\* dt of a tick, ms; 50 ms is the largest dt the caller passes
Dts == {0, 16, 50}

\* positions the constructor or the external controller may set, px: inside
\* the screen, on the floor, and outside the screen on every side
SetPositions ==
    {Vec(Px(0), Px(0)), Vec(Px(15), Px(5)), Vec(Px(15), Px(30)),
     Vec(Px(33), Px(25)), Vec(Px(-3), Px(-5)), Vec(Px(15), Px(36))}

\* velocities the external controller may set, px/s
SetVelocities ==
    {Vec(0, 0), Vec(300 * VScale, 150 * VScale), Vec(-300 * VScale, -79 * VScale),
     Vec(VScale \div 2, VScale)}

Win(h, vis, r) == [hwnd |-> h, visible |-> vis, rect |-> r]

\* the desktops of the model, each listed topmost first
Desktops ==
    {<<>>,
     <<Win(1, TRUE, <<0, 20, 25, 30>>)>>,
     <<Win(1, TRUE, <<0, 5, 25, 15>>)>>,
     <<Win(2, TRUE, <<15, 15, 40, 35>>), Win(1, TRUE, <<0, 20, 25, 30>>)>>,
     <<Win(1, TRUE, <<0, 20, 25, 30>>), Win(2, TRUE, <<15, 15, 40, 35>>)>>,
     <<Win(1, FALSE, <<0, 20, 25, 30>>), Win(2, TRUE, <<15, 15, 40, 35>>)>>,
     <<Win(2, TRUE, <<5, 5, 5, 20>>), Win(1, TRUE, <<0, 20, 25, 30>>)>>}

NoTick ==
    [op |-> "none", dt |-> 0,
     previous |-> [position |-> Vec(0, 0), velocity |-> Vec(0, 0)],
     impact |-> Vec(0, 0), integrated |-> Vec(0, 0),
     floor |-> FALSE, queried |-> FALSE, landed |-> FALSE, raised |-> FALSE,
     applyFriction |-> FALSE,
     beforeFriction |-> Vec(0, 0), afterFriction |-> Vec(0, 0)]

NoGroups == [called |-> FALSE, raised |-> FALSE, groups |-> <<>>, windows |-> <<>>]

\* PhysicsObject.__init__, lines 52-55, with the registry as the class
\* attribute of DesktopInteractionManager.py:25 starts: empty.
InitPhys ==
    /\ position \in SetPositions
    /\ velocity = Vec(0, 0)
    /\ windows = <<>>
    /\ desktop = <<>>
    /\ nTicks = 0
    /\ tick = NoTick
    /\ groupsResult = NoGroups

\* the PhysicsObject is not running
IdlePhys ==
    /\ position = Vec(0, 0)
    /\ velocity = Vec(0, 0)
    /\ windows = <<>>
    /\ desktop = <<>>
    /\ nTicks = 0
    /\ tick = NoTick
    /\ groupsResult = NoGroups

\* One call of applyPhysics(dt, screen_rect).
ApplyPhysics(dt) ==
    /\ nTicks < MaxTicks
    /\ LET r == applyPhysics(position, velocity, windows, desktop, dt)
       IN  /\ position' = r.position
           /\ velocity' = r.velocity
           /\ windows' = r.windows
           /\ tick' = r.info
           /\ groupsResult' = IF r.info.queried
                              THEN [called |-> TRUE, raised |-> r.res.raised,
                                    groups |-> r.res.groups, windows |-> r.windows]
                              ELSE groupsResult
    /\ nTicks' = nTicks + 1
    /\ UNCHANGED <<desktop, subVars, cwVars>>

\* The external controller overwrites position and velocity between ticks.
ExternalOverride(p, v) ==
    /\ position' = p
    /\ velocity' = v
    /\ tick' = NoTick
    /\ UNCHANGED <<windows, desktop, nTicks, groupsResult, subVars, cwVars>>

\* Windows open, close, move, hide or restack.
DesktopChange(d) ==
    /\ desktop' = d
    /\ tick' = NoTick
    /\ UNCHANGED <<position, velocity, windows, nTicks, groupsResult, subVars, cwVars>>

\* DesktopPetManager.debugTick: updateAllWindowsList on its own.
DebugTick ==
    /\ windows' = updateAllWindowsList(windows, desktop)
    /\ tick' = NoTick
    /\ UNCHANGED <<position, velocity, desktop, nTicks, groupsResult, subVars, cwVars>>

\* PhysicsObject.getCollisionBordersGroups called on its own.
CallGetCollisionBordersGroups ==
    /\ windows' = updateAllWindowsList(windows, desktop)
    /\ groupsResult' =
         [called |-> TRUE,
          raised |-> getCollisionBordersGroups(windows').raised,
          groups |-> getCollisionBordersGroups(windows').groups,
          windows |-> windows']
    /\ tick' = NoTick
    /\ UNCHANGED <<position, velocity, desktop, nTicks, subVars, cwVars>>


-----------------------------------------------------------------------------
(* The CharacterWindow with its environment: the clock, the mouse, the timer *)

\* CharacterWindow.__init__, lines 22-65.
InitCw ==
    /\ is_dragging = FALSE
    /\ drag_position = <<0, 0>>
    /\ last_time = 0
    /\ drag_history = <<>>
    /\ windowPos \in StartPoints
    /\ cwPosition = ToVector(windowPos)
    /\ cwVelocity = Vec(0, 0)
    /\ last_physics_time = 0
    /\ now = 0
    /\ buttons = {}
    /\ samples = <<>>
    /\ cwEvent = "init"

\* the CharacterWindow is not running
IdleCw ==
    /\ is_dragging = FALSE
    /\ drag_position = <<0, 0>>
    /\ last_time = 0
    /\ drag_history = <<>>
    /\ windowPos = <<0, 0>>
    /\ cwPosition = Vec(0, 0)
    /\ cwVelocity = Vec(0, 0)
    /\ last_physics_time = 0
    /\ now = 0
    /\ buttons = {}
    /\ samples = <<>>
    /\ cwEvent = "idle"

\* Time passes between two events.
Advance(d) ==
    /\ now + d <= MaxTime
    /\ now' = now + d
    /\ cwEvent' = "advance"
    /\ UNCHANGED <<is_dragging, drag_position, last_time, drag_history, windowPos,
                   cwPosition, cwVelocity, last_physics_time, buttons, samples>>
    /\ UNCHANGED <<subVars, physVars>>

\* mousePressEvent, lines 95-106: button b goes down with the cursor at g,
\* over the sprite (the label receives the presses made on it).
MousePress(b, g) ==
    /\ b \notin buttons
    /\ g[1] - windowPos[1] \in 0..(BodyWidth - 1)
    /\ g[2] - windowPos[2] \in 0..(BodyHeight - 1)
    /\ buttons' = buttons \cup {b}
    /\ cwEvent' = IF b # "left" THEN "press ignored" ELSE "press"
    /\ IF b # "left"
       THEN UNCHANGED <<is_dragging, drag_position, last_time, drag_history,
                        cwVelocity, samples>>
       ELSE /\ is_dragging' = TRUE
            /\ drag_position' = <<g[1] - windowPos[1], g[2] - windowPos[2]>>
            /\ last_time' = now
            /\ drag_history' = <<>>
            /\ samples' = <<>>
            /\ cwVelocity' = Vec(0, 0)
    /\ UNCHANGED <<windowPos, cwPosition, last_physics_time, now>>
    /\ UNCHANGED <<subVars, physVars>>

\* mouseMoveEvent, lines 108-131: the cursor moves to g.
MouseMove(g) ==
    /\ Len(samples) < MaxSamples
    /\ cwEvent' = IF buttons # {"left"} \/ ~is_dragging THEN "move ignored" ELSE "move"
    /\ IF buttons # {"left"} \/ ~is_dragging
       THEN UNCHANGED <<windowPos, drag_history, samples, last_time>>
       ELSE /\ windowPos' = <<g[1] - drag_position[1], g[2] - drag_position[2]>>
            /\ IF now - last_time <= 0
               THEN UNCHANGED <<drag_history, samples, last_time>>
               ELSE /\ drag_history' =
                         Recent(Append(drag_history, [pos |-> g, time |-> now]), now)
                    /\ samples' = Append(samples, [pos |-> g, time |-> now])
                    /\ last_time' = now
    /\ UNCHANGED <<is_dragging, drag_position, cwPosition, cwVelocity,
                   last_physics_time, buttons, now>>
    /\ UNCHANGED <<subVars, physVars>>

\* mouseReleaseEvent, lines 133-155: button b goes up.
MouseRelease(b) ==
    /\ b \in buttons
    /\ buttons' = buttons \ {b}
    /\ cwEvent' = IF b # "left" \/ ~is_dragging THEN "release ignored" ELSE "release"
    /\ IF b # "left" \/ ~is_dragging
       THEN UNCHANGED <<is_dragging, drag_history, cwVelocity>>
       ELSE /\ is_dragging' = FALSE
            /\ drag_history' = Recent(drag_history, now)
            /\ cwVelocity' = ReleaseVelocity(drag_history', cwVelocity)
    /\ UNCHANGED <<drag_position, last_time, windowPos, cwPosition,
                   last_physics_time, samples, now>>
    /\ UNCHANGED <<subVars, physVars>>

\* Mutant: the timer tick integrates whether or not a drag is going on.
UpdatePhysicsNoModeTest ==
    /\ nTicks < MaxTicks
    /\ nTicks' = nTicks + 1
    /\ cwEvent' = "tick"
    /\ last_physics_time' = now
    /\ LET r == CwPhysics(cwPosition, cwVelocity,
                          Min(now - last_physics_time, max_dt))
       IN  /\ cwPosition' = r.position
           /\ cwVelocity' = r.velocity
           /\ windowPos' = ToPoint(r.position)
    /\ UNCHANGED <<is_dragging, drag_position, last_time, drag_history, buttons,
                   samples, now>>
    /\ UNCHANGED <<subVars, position, velocity, windows, desktop, tick, groupsResult>>

\* updatePhysics, lines 157-219: the timer fires.
UpdatePhysics ==
    /\ nTicks < MaxTicks
    /\ nTicks' = nTicks + 1
    /\ cwEvent' = "tick"
    /\ last_physics_time' = now
    /\ IF is_dragging
       THEN /\ cwPosition' = ToVector(windowPos)
            /\ UNCHANGED <<cwVelocity, windowPos>>
       ELSE LET r == CwPhysics(cwPosition, cwVelocity,
                               Min(now - last_physics_time, max_dt))
            IN  /\ cwPosition' = r.position
                /\ cwVelocity' = r.velocity
                /\ windowPos' = ToPoint(r.position)
    /\ UNCHANGED <<is_dragging, drag_position, last_time, drag_history, buttons,
                   samples, now>>
    /\ UNCHANGED <<subVars, position, velocity, windows, desktop, tick, groupsResult>>

InitCW == InitCw /\ IdlePhys /\ subPc = "idle" /\ base = <<0, 1>> /\ subtracts = <<>> /\ intervals = <<>>

NextCW ==
    \/ \E d \in Steps : Advance(d)
    \/ \E b \in Buttons, g \in MousePoints : MousePress(b, g)
    \/ \E g \in MousePoints : MouseMove(g)
    \/ \E b \in Buttons : MouseRelease(b)
    \/ UpdatePhysics

SpecCW == InitCW /\ [][NextCW]_vars

\* The PhysicsObject on its own
Init == InitPhys /\ IdleCw /\ subPc = "idle" /\ base = <<0, 1>> /\ subtracts = <<>> /\ intervals = <<>>

Next ==
    \/ \E dt \in Dts : ApplyPhysics(dt)
    \/ \E p \in SetPositions, v \in SetVelocities : ExternalOverride(p, v)
    \/ \E d \in Desktops : DesktopChange(d)
    \/ DebugTick
    \/ CallGetCollisionBordersGroups

Spec == Init /\ [][Next]_vars

\* A body released from rest above the floor of a desktop without windows and
\* ticked with one fixed dt.  nTicks counts the calls modulo MaxTicks.
DropDts == {1, 16, 50}

\* heights the body is released from, px
DropHeights == {0, 20, 29}

InitDrop ==
    /\ position \in {Vec(Px(15), Px(y)) : y \in DropHeights}
    /\ velocity = Vec(0, 0)
    /\ windows = <<>>
    /\ desktop = <<>>
    /\ nTicks = 0
    /\ tick \in {[NoTick EXCEPT !.dt = d] : d \in DropDts}
    /\ groupsResult = NoGroups
    /\ IdleCw
    /\ subPc = "idle" /\ base = <<0, 1>> /\ subtracts = <<>> /\ intervals = <<>>

\* One more call of applyPhysics with the dt of the run.
DropTick ==
    /\ LET r == applyPhysics(position, velocity, windows, desktop, tick.dt)
       IN  /\ position' = r.position
           /\ velocity' = r.velocity
           /\ windows' = r.windows
           /\ tick' = r.info
    /\ nTicks' = (nTicks + 1) % MaxTicks
    /\ UNCHANGED <<desktop, groupsResult, subVars, cwVars>>

NextDrop == DropTick

\* The timer of the caller fires again and again: every step of a run under
\* NextDrop is a call of applyPhysics, and the calls never stop.
TimerFires == nTicks' = (nTicks + 1) % MaxTicks

SpecDrop == InitDrop /\ [][NextDrop]_vars /\ WF_nTicks(TimerFires)

-----------------------------------------------------------------------------
(* The harness of subtractIntervals: inputs drawn from bounded sets *)

MaxCoord == 5       \* end points range over 0..MaxCoord
MaxCuts == 2        \* at most this many cuts in a call

Coord == 0..MaxCoord

\* base_start < base_end; cuts inside, across and outside the base exist
Bases == {b \in (0..1) \X ((MaxCoord - 1)..MaxCoord) : b[1] < b[2]}

\* every pair, the malformed ones (start >= end) included
Cuts == Coord \X Coord

InitSub ==
    /\ base \in Bases
    /\ subtracts \in SeqsUpTo(Cuts, MaxCuts)
    /\ intervals = <<>>
    /\ subPc = "input"
    /\ IdlePhys
    /\ IdleCw

CallSubtractIntervals ==
    /\ subPc = "input"
    /\ intervals' = subtractIntervals(base[1], base[2], subtracts)
    /\ subPc' = "done"
    /\ UNCHANGED <<base, subtracts, physVars, cwVars>>

NextSub == CallSubtractIntervals

SpecSub == InitSub /\ [][NextSub]_vars

-----------------------------------------------------------------------------
(* Properties of subtractIntervals, checked under SpecSub *)

WellFormed(c) == c[1] < c[2]

WellFormedCuts(cuts) == \A i \in DOMAIN cuts : WellFormed(cuts[i])

\* the unit cells [k, k+1) an interval with whole end points covers
Cells(iv) == {k \in -1..(MaxCoord + 1) : iv[1] <= k /\ k < iv[2]}

CellsOf(ivs) == UNION {Cells(ivs[i]) : i \in DOMAIN ivs}

RECURSIVE KeepWellFormed(_)
KeepWellFormed(cuts) ==
    IF cuts = <<>> THEN <<>>
    ELSE (IF WellFormed(Head(cuts)) THEN <<Head(cuts)>> ELSE <<>>)
         \o KeepWellFormed(Tail(cuts))

CutOrders(n) == {p \in [1..n -> 1..n] : \A i, j \in 1..n : p[i] = p[j] => i = j}

Permuted(s, p) == [i \in 1..Len(s) |-> s[p[i]]]

\* C3: for a base with start < end and well-formed cuts, the returned
\* intervals are pairwise disjoint, each has start < end and lies in the base,
\* and together they cover exactly the base minus the union of the cuts.
C3_SubtractExact ==
    (subPc = "done" /\ WellFormedCuts(subtracts)) =>
        /\ \A i \in DOMAIN intervals :
              /\ intervals[i][1] < intervals[i][2]
              /\ base[1] <= intervals[i][1]
              /\ intervals[i][2] <= base[2]
        /\ \A i, j \in DOMAIN intervals :
              i # j => Cells(intervals[i]) \cap Cells(intervals[j]) = {}
        /\ CellsOf(intervals) = Cells(base) \ CellsOf(subtracts)

\* C3 witness: two overlapping cuts strictly inside the base merge, the
\* spec's subtract((0,10), [(3,7),(5,9)]) = [(0,3),(9,10)] scaled down.
C3_Witness ==
    /\ subPc = "done"
    /\ base = <<0, 5>>
    /\ subtracts = <<<<1, 3>>, <<2, 4>>>>
    /\ intervals = <<<<0, 1>>, <<4, 5>>>>

\* C3 second case: a cut covering the whole base leaves the empty list.
C3_WitnessCovered ==
    /\ subPc = "done"
    /\ subtracts = <<<<0, MaxCoord>>>>
    /\ intervals = <<>>

\* C9 (as claimed): a malformed cut (start >= end) is a no-op, the result
\* equals the result with the malformed cuts removed from the list.
C9_MalformedCutNoOp ==
    subPc = "done" =>
        intervals = subtractIntervals(base[1], base[2], KeepWellFormed(subtracts))

\* C9 (as claimed, second half): the result stays pairwise disjoint whatever
\* the cuts are.
C9_MalformedCutDisjoint ==
    subPc = "done" =>
        \A i, j \in DOMAIN intervals :
            i # j => Cells(intervals[i]) \cap Cells(intervals[j]) = {}

\* C10: the set of returned intervals is the same for every permutation of
\* the same list of well-formed cuts.
C10_OrderIndependent ==
    (subPc = "done" /\ WellFormedCuts(subtracts)) =>
        \A p \in CutOrders(Len(subtracts)) :
            Range(subtractIntervals(base[1], base[2], Permuted(subtracts, p)))
                = Range(intervals)

\* C10 witness: two different cuts, taken in the order that differs from the
\* sorted one, leave three intervals (the spec's [(2,4),(6,8)] example).
C10_Witness ==
    /\ subPc = "done"
    /\ subtracts = <<<<3, 4>>, <<1, 2>>>>
    /\ base = <<0, 5>>
    /\ Range(intervals) = {<<0, 1>>, <<2, 3>>, <<4, 5>>}

-----------------------------------------------------------------------------
(* Properties of PhysicsObject, checked under Spec *)

\* The platform segments as section 4.2 of the design states them: the top
\* edge of window h of registry reg minus the horizontal intervals of the
\* other windows with a greater z whose vertical extent straddles that edge.
RECURSIVE SetToSeq(_)
SetToSeq(S) ==
    IF S = {} THEN <<>>
    ELSE LET e == CHOOSE e \in S : TRUE IN <<e>> \o SetToSeq(S \ {e})

Left(reg, h) == reg[h].position[1]
Top(reg, h) == reg[h].position[2]
Right(reg, h) == reg[h].position[1] + reg[h].size[1]
Bottom(reg, h) == reg[h].position[2] + reg[h].size[2]

StatedOccluders(reg, h) ==
    {h2 \in DOMAIN reg \ {h} :
        /\ reg[h2].z > reg[h].z
        /\ Top(reg, h2) <= Top(reg, h) /\ Top(reg, h) < Bottom(reg, h2)}

StatedSegments(reg, h) ==
    subtractIntervals(Left(reg, h), Right(reg, h),
        SetToSeq({<<Left(reg, h2), Right(reg, h2)>> : h2 \in StatedOccluders(reg, h)}))

\* a top edge cut by k windows leaves at most k + 1 segments
MaxSegments == Cardinality({w.hwnd : w \in UNION {Range(d) : d \in Desktops}})

OnFloor == position.y = Px(ScreenHeight) - Px(BodyHeight)

InScreen(p) ==
    /\ 0 <= p.x /\ p.x <= Px(ScreenWidth) - Px(BodyWidth)
    /\ 0 <= p.y /\ p.y <= Px(ScreenHeight) - Px(BodyHeight)

\* the platform segments of registry reg that the tick crossed: the body's
\* bottom went from at or above the segment's y to below it, with the body
\* over the segment
CrossedSegments(reg) ==
    {<<h, i>> \in (DOMAIN reg) \X (1..MaxSegments) :
        /\ i \in DOMAIN StatedSegments(reg, h)
        /\ tick.integrated.y + Px(BodyHeight) > Px(Top(reg, h))
        /\ Px(Top(reg, h)) >= tick.previous.position.y + Px(BodyHeight)
        /\ position.x + Px(BodyWidth) > Px(StatedSegments(reg, h)[i][1])
        /\ Px(StatedSegments(reg, h)[i][2]) > position.x}

\* C1 (as claimed): in a tick in which the body's bottom edge crosses the y
\* of a platform segment while the body overlaps the segment horizontally,
\* the body ends the tick with its bottom on that segment.  Stated for the
\* ticks that start inside the screen and touch no screen border, where
\* nothing but the window collision decides the outcome.
C1_LandsOnCrossedSegment ==
    (/\ tick.op = "applyPhysics"
     /\ InScreen(tick.previous.position)
     /\ InScreen(tick.integrated)) =>
        \A c \in CrossedSegments(updateAllWindowsList(windows, desktop)) :
            position.y + Px(BodyHeight)
                = Px(Top(updateAllWindowsList(windows, desktop), c[1]))

\* C1 (as claimed), for every tick: also those that start outside the screen
\* or reach the floor in the same tick.
C1_LandsOnCrossedSegmentAnyTick ==
    tick.op = "applyPhysics" =>
        \A c \in CrossedSegments(updateAllWindowsList(windows, desktop)) :
            position.y + Px(BodyHeight)
                = Px(Top(updateAllWindowsList(windows, desktop), c[1]))

\* C2 (as claimed): a call of getCollisionBordersGroups returns one group for
\* every window of the registry, with y the window's top and the stated
\* segments as x_s.
C2_OneGroupPerWindow ==
    groupsResult.called =>
        /\ ~groupsResult.raised
        /\ Len(groupsResult.groups) = Cardinality(DOMAIN groupsResult.windows)
        /\ \A h \in DOMAIN groupsResult.windows :
              \E g \in DOMAIN groupsResult.groups :
                 /\ groupsResult.groups[g].y = Top(groupsResult.windows, h)
                 /\ Range(groupsResult.groups[g].x_s)
                       = Range(StatedSegments(groupsResult.windows, h))

\* C4: after every tick of applyPhysics the body lies inside the screen,
\* whatever position and velocity the tick started from and whatever windows
\* exist.
C4_InsideScreenAfterTick ==
    tick.op = "applyPhysics" => InScreen(position)

\* C4 witness: a tick that started outside the screen, with windows on the
\* desktop and in the registry, and ended inside.
C4_Witness ==
    /\ tick.op = "applyPhysics"
    /\ ~InScreen(tick.previous.position)
    /\ ~InScreen(tick.integrated)
    /\ DOMAIN windows # {}
    /\ desktop # <<>>
    /\ InScreen(position)

\* the vertical velocity a floor bounce leaves at the end of the tick
BounceSnapped(vy) ==
    IF Abs(Damp(vy)) < min_velocity * VScale THEN 0 ELSE Damp(vy)

\* C7 (as claimed): in a tick that hits the floor the final vertical velocity
\* is -bounce_damping times the impact velocity and the friction flag is
\* raised.
C7_FloorBounceExact ==
    (tick.op = "applyPhysics" /\ tick.floor) =>
        /\ velocity.y = Damp(tick.impact.y)
        /\ tick.applyFriction

\* C7 (amended): in a tick that hits the floor the final vertical velocity is
\* -bounce_damping times the impact velocity, or exactly 0 when that value is
\* smaller in magnitude than min_velocity; its sign is never that of the
\* impact velocity; the friction flag is raised.
C7_FloorBounceSnapped ==
    (tick.op = "applyPhysics" /\ tick.floor) =>
        /\ velocity.y = BounceSnapped(tick.impact.y)
        /\ velocity.y * tick.impact.y <= 0
        /\ tick.applyFriction

\* C7 witness: a falling body hits the floor and leaves it upward at half
\* the impact speed.
C7_Witness ==
    /\ tick.op = "applyPhysics"
    /\ tick.floor
    /\ tick.impact.y >= 2 * min_velocity * VScale
    /\ velocity.y < 0
    /\ velocity.y = Damp(tick.impact.y)
    /\ position.y = Px(ScreenHeight) - Px(BodyHeight)

\* C7 second case: a floor hit so slow that the bounce is snapped to 0.
C7_WitnessSnapped ==
    /\ tick.op = "applyPhysics"
    /\ tick.floor
    /\ tick.impact.y > 0
    /\ velocity.y = 0

\* C12 (as claimed): with the desktop as it is, whatever the registry holds
\* from earlier updates, two calls of getCollisionBordersGroups in a row both
\* return, and return the same groups.
C12_SecondCallSameGroups ==
    LET reg1 == updateAllWindowsList(windows, desktop)
        first == getCollisionBordersGroups(reg1)
        reg2 == updateAllWindowsList(reg1, desktop)
        second == getCollisionBordersGroups(reg2)
    IN  /\ ~first.raised
        /\ ~second.raised
        /\ first.groups = second.groups

\* the other windows of the registry whose vertical extent straddles the top
\* edge of window h, whatever their z
Straddlers(reg, h) ==
    {h2 \in DOMAIN reg \ {h} :
        Top(reg, h2) <= Top(reg, h) /\ Top(reg, h) < Bottom(reg, h2)}

\* C13 (as claimed): a call of getCollisionBordersGroups returns, for every
\* window whose top edge no other window straddles, a group with the one
\* segment (left, left + width).
C13_UnoccludedWindowFullWidth ==
    groupsResult.called =>
        \A h \in DOMAIN groupsResult.windows :
            Straddlers(groupsResult.windows, h) = {} =>
                /\ ~groupsResult.raised
                /\ \E g \in DOMAIN groupsResult.groups :
                      /\ groupsResult.groups[g].y = Top(groupsResult.windows, h)
                      /\ groupsResult.groups[g].x_s
                            = <<<<Left(groupsResult.windows, h),
                                  Right(groupsResult.windows, h)>>>>

\* a step that ran updateAllWindowsList: debugTick, a call of
\* getCollisionBordersGroups, or a tick that queried the windows
RegistryUpdated ==
    \/ DebugTick
    \/ CallGetCollisionBordersGroups
    \/ (tick'.op = "applyPhysics" /\ tick'.queried)

\* what one enumeration of desktop desk alone yields
Enumerated(desk) == updateAllWindowsList(<<>>, desk)

\* C14 (as claimed): after every run of updateAllWindowsList the registry
\* holds exactly the windows that passed the filters in that enumeration,
\* each with the z that enumeration gave it.
C14_RegistryIsLatestEnumeration ==
    [][RegistryUpdated =>
          /\ DOMAIN windows' = DOMAIN Enumerated(desktop)
          /\ \A h \in DOMAIN windows' : windows'[h].z = Enumerated(desktop)[h].z]_vars

\* C15 (as claimed): a tick with dt = 0 leaves position and velocity as they
\* were, whatever they were and whatever windows exist.
C15_ZeroDtNoOp ==
    (tick.op = "applyPhysics" /\ tick.dt = 0) =>
        /\ position = tick.previous.position
        /\ velocity = tick.previous.velocity

\* C15 for the ticks that start inside the screen: the velocity is left as it
\* was.
C15_ZeroDtKeepsVelocityInScreen ==
    (tick.op = "applyPhysics" /\ tick.dt = 0 /\ InScreen(tick.previous.position)) =>
        velocity = tick.previous.velocity

\* the tick just taken, had there been no window at all
EmptyDesktopTick ==
    applyPhysics(tick.previous.position, tick.previous.velocity, <<>>, <<>>, tick.dt)

\* the tick just taken queried the windows and the query failed
QueryFailed ==
    /\ tick.op = "applyPhysics"
    /\ tick.queried
    /\ groupsResult.raised

\* C16 (as claimed): a tick whose window query fails still completes: no
\* error leaves applyPhysics, and position and velocity end as in a tick
\* with no windows, friction and velocity snap included.
C16_FailedQueryIsNoPlatforms ==
    QueryFailed =>
        /\ ~tick.raised
        /\ position = EmptyDesktopTick.position
        /\ velocity = EmptyDesktopTick.velocity

\* C16, the result alone: position and velocity after a tick whose query
\* failed are those of a tick with no windows.
C16_FailedQuerySameResult ==
    QueryFailed =>
        /\ position = EmptyDesktopTick.position
        /\ velocity = EmptyDesktopTick.velocity

\* a velocity component is 0 or at least min_velocity in magnitude
Settled(c) == c = 0 \/ Abs(c) >= min_velocity * VScale

\* C17 (as claimed): after every tick of applyPhysics each velocity
\* component is exactly 0 or has magnitude >= min_velocity.
C17_NoSmallVelocity ==
    tick.op = "applyPhysics" => Settled(velocity.x) /\ Settled(velocity.y)

\* C17 for the ticks that ran to the end of applyPhysics.
C17_NoSmallVelocityCompleted ==
    (tick.op = "applyPhysics" /\ ~tick.raised) =>
        Settled(velocity.x) /\ Settled(velocity.y)

\* a completed tick whose velocity snap set a non-zero horizontal velocity
\* to 0
C17_WitnessCompleted ==
    /\ tick.op = "applyPhysics"
    /\ ~tick.raised
    /\ tick.impact.x # 0
    /\ ~tick.applyFriction
    /\ velocity.x = 0

\* position and velocity as screenBordersCollision left them in the tick
\* just taken
AfterBorders == screenBordersCollision(tick.integrated, tick.impact)

\* the first group, in list order, of the groups the query returned that
\* the tick just taken qualifies to land on
FirstLandingGroup ==
    LET hits == LandingGroups(groupsResult.groups, AfterBorders.position,
                              tick.previous.position.y)
    IN  CHOOSE g \in hits : \A g2 \in hits : g <= g2

\* C18: in a tick in which the floor collision triggered, or in which the
\* vertical velocity after the screen borders is not positive, the windows
\* are not consulted: position is what the screen borders left, velocity is
\* that velocity after friction (floor only) and the velocity snap, and the
\* friction flag is the floor's.  A tick that lands takes the first
\* qualifying group.
C18_FloorFirstOneWay ==
    /\ (tick.op = "applyPhysics" /\ (tick.floor \/ AfterBorders.velocity.y <= 0)) =>
          /\ ~tick.queried /\ ~tick.landed /\ ~tick.raised
          /\ position = AfterBorders.position
          /\ velocity = StopSmallMovement(IF tick.floor
                                          THEN Friction(AfterBorders.velocity, tick.dt)
                                          ELSE AfterBorders.velocity)
          /\ tick.applyFriction = tick.floor
    /\ (tick.op = "applyPhysics" /\ tick.landed) =>
          position.y = Px(groupsResult.groups[FirstLandingGroup].y) - Px(BodyHeight)

\* C18 case: the body fell through the top edge of a registered window and
\* onto the floor in one tick; it stands on the floor.
C18_Witness ==
    /\ tick.op = "applyPhysics"
    /\ tick.floor
    /\ CrossedSegments(windows) # {}
    /\ tick.applyFriction
    /\ OnFloor

\* C18 second case: the body moves upward after the screen borders, with
\* windows registered, and the tick runs to its end.
C18_WitnessUpward ==
    /\ tick.op = "applyPhysics"
    /\ ~tick.floor
    /\ AfterBorders.velocity.y < 0
    /\ DOMAIN windows # {}
    /\ ~tick.applyFriction
    /\ position = AfterBorders.position

\* friction * dt of the tick just taken, in velocity units
FrictionOfTick == (friction * VScale * tick.dt) \div 1000

\* C19: in a tick with the friction flag raised the horizontal velocity after
\* the friction step has the sign it had before or is 0, and its magnitude is
\* smaller by min(|vx|, friction * dt); the vertical velocity is untouched.
\* In a tick with neither floor collision nor window landing the friction
\* step changes nothing.
C19_FrictionNeverReverses ==
    tick.op = "applyPhysics" =>
        /\ tick.applyFriction =>
              /\ tick.afterFriction.x * tick.beforeFriction.x >= 0
              /\ Abs(tick.afterFriction.x)
                    = Abs(tick.beforeFriction.x)
                        - Min(Abs(tick.beforeFriction.x), FrictionOfTick)
              /\ tick.afterFriction.y = tick.beforeFriction.y
        /\ (~tick.floor /\ ~tick.landed) =>
              tick.afterFriction = tick.beforeFriction

\* C19 case: friction slowed a sliding body without stopping it.
C19_Witness ==
    /\ tick.op = "applyPhysics"
    /\ tick.applyFriction
    /\ tick.dt > 0
    /\ Abs(tick.beforeFriction.x) > FrictionOfTick
    /\ tick.afterFriction.x # 0
    /\ tick.afterFriction.x # tick.beforeFriction.x

\* C19 second case: friction larger than the speed stops the body at 0.
C19_WitnessStopped ==
    /\ tick.op = "applyPhysics"
    /\ tick.applyFriction
    /\ tick.beforeFriction.x # 0
    /\ Abs(tick.beforeFriction.x) < FrictionOfTick
    /\ tick.afterFriction.x = 0

\* C19 third case: a tick off the floor with horizontal velocity.
C19_WitnessNoContact ==
    /\ tick.op = "applyPhysics"
    /\ ~tick.floor /\ ~tick.landed
    /\ tick.beforeFriction.x # 0

-----------------------------------------------------------------------------
(* Properties of CharacterWindow, checked under SpecCW *)

\* C5: the mode separates the two writers.  A timer tick during a drag
\* leaves the velocity alone and only copies the window placement into
\* position; a mouse move or release outside a drag changes neither the body
\* nor the drag state.
C5_ModeSeparatesWriters ==
    [][/\ (cwEvent' = "tick" /\ is_dragging) =>
            /\ cwVelocity' = cwVelocity
            /\ cwPosition' = ToVector(windowPos)
            /\ UNCHANGED <<windowPos, is_dragging, drag_position, drag_history,
                           last_time>>
       /\ (cwEvent' \in {"move", "move ignored", "release", "release ignored"}
           /\ ~is_dragging) =>
            UNCHANGED <<cwPosition, cwVelocity, windowPos, is_dragging,
                        drag_position, drag_history, last_time>>]_vars

\* C5 witness: a tick during a drag, after the mouse moved the window and
\* left samples: position follows the window and the velocity is still 0.
C5_Witness ==
    /\ cwEvent = "tick"
    /\ is_dragging
    /\ samples # <<>>
    /\ windowPos \notin StartPoints
    /\ cwPosition = ToVector(windowPos)
    /\ cwVelocity = Vec(0, 0)

\* C5 second case: a mouse move outside a drag.
C5_WitnessIgnoredMove ==
    /\ cwEvent = "move ignored"
    /\ ~is_dragging
    /\ cwVelocity # Vec(0, 0)

\* the samples of the drag that are younger than 100 ms
Trailing == {i \in DOMAIN samples : now - samples[i].time < history_window}

Newest == samples[CHOOSE i \in Trailing : \A j \in Trailing : j <= i]

Oldest == samples[CHOOSE i \in Trailing : \A j \in Trailing : i <= j]

\* C8: when a release ends the drag, the velocity is (0, 0) if fewer than two
\* samples lie in the trailing 100 ms or their time difference is not
\* positive, and otherwise (newest position - oldest position) / (their time
\* difference).
C8_ReleaseVelocity ==
    cwEvent = "release" =>
        IF Cardinality(Trailing) < 2
        THEN cwVelocity = Vec(0, 0)
        ELSE IF Newest.time - Oldest.time <= 0
        THEN cwVelocity = Vec(0, 0)
        ELSE /\ cwVelocity.x = TruncDiv((Newest.pos[1] - Oldest.pos[1]) * VScale * 1000,
                                        Newest.time - Oldest.time)
             /\ cwVelocity.y = TruncDiv((Newest.pos[2] - Oldest.pos[2]) * VScale * 1000,
                                        Newest.time - Oldest.time)

\* C8 witness: a release with three samples taken, the oldest of them out of
\* the trailing window, and a velocity from the remaining two.
C8_Witness ==
    /\ cwEvent = "release"
    /\ Len(samples) = 3
    /\ Cardinality(Trailing) = 2
    /\ cwVelocity # Vec(0, 0)
    /\ nTicks > 0

\* C8 second case: samples were taken, fewer than two of them are recent, and
\* the velocity is (0, 0).
C8_WitnessTooFew ==
    /\ cwEvent = "release"
    /\ Len(samples) >= 2
    /\ Cardinality(Trailing) < 2
    /\ cwVelocity = Vec(0, 0)

\* C20 (as claimed): a timer tick in free mode integrates from the place the
\* sprite window is at.  Free ticks leave the window at the pixel of the
\* position they computed, so this speaks about the first free tick after a
\* release: it starts from where the drag left the window, for every order
\* of mouse moves, releases and timer ticks.
C20_FreeTickStartsAtWindow ==
    [][(cwEvent' = "tick" /\ ~is_dragging) => ToPoint(cwPosition) = windowPos]_vars

-----------------------------------------------------------------------------
(* Properties of a dropped body, checked under SpecDrop *)


\* C6 (as claimed): a body released from rest above the floor, with no
\* windows and a fixed dt, eventually is at rest on the floor with velocity
\* exactly (0, 0), and stays so.
C6_EventuallyAtRest == <>[](OnFloor /\ velocity = Vec(0, 0))

=============================================================================
